---- MODULE Spec2Model ----
(***************************************************************************)
(* A model of the identicon generator: the base64 encoder                  *)
(* (src/src/base64.rs), the HSL colour validation (src/src/color.rs), the  *)
(* digest-driven appearance derivation and the image compositor            *)
(* (src/src/lib.rs) and the command-line argument parsing                  *)
(* (src/src/bin/cli.rs).                                                   *)
(*                                                                         *)
(* Each component has its own specification (SpecB64, SpecNew, SpecImg,    *)
(* SpecHSL, SpecCli) over the shared variable pc; the variables of the     *)
(* other components stay at their idle values.                             *)
(***************************************************************************)
EXTENDS Integers, Sequences, FiniteSets

VARIABLES
    pc,          \* position of the running function
    bytes,       \* base64::encode: the input slice
    pos,         \* base64::encode: number of bytes the iterator has yielded
    remainder,   \* base64::encode: carried bits
    num_bits,    \* base64::encode: RemainderBits
    encoded,     \* base64::encode: the output Vec<char>
    hash,        \* Identicon::new: the 16-byte MD5 digest
    fgResult,    \* Identicon::new: result of compute_fg
    paints,      \* Identicon.paints (in Identicon::new, the local `paints`)
    size,        \* Identicon.size
    foreground,  \* Identicon.foreground
    background,  \* Identicon.background
    img,         \* Identicon::image: the RgbImage (None before the call)
    hslArgs,     \* HSL::new: <<hue, sat, lum>>
    hslResult,   \* HSL::new: the returned Result
    sizeArg,     \* cli: the --size argument
    bgArg,       \* cli: the --background argument
    cli,         \* cli: the parsed Cli (or the usage error)
    identicon    \* cli: the Identicon built by main

vars == <<pc, bytes, pos, remainder, num_bits, encoded, hash, fgResult, paints, size, foreground, background, img, hslArgs,
          hslResult, sizeArg, bgArg, cli, identicon>>

b64Vars == <<bytes, pos, remainder, num_bits, encoded>>
newVars == <<hash, fgResult>>
imgVars == <<size, foreground, background, img>>
hslVars == <<hslArgs, hslResult>>
cliVars == <<sizeArg, bgArg, cli, identicon>>

None == "None"

B64Idle == /\ bytes = <<>> /\ pos = 0 /\ remainder = 0
           /\ num_bits = "Zero" /\ encoded = <<>>
NewIdle == /\ hash = <<>> /\ fgResult = None
ImgIdle == /\ size = 0 /\ foreground = None
           /\ background = None /\ img = None
HslIdle == /\ hslArgs = <<>> /\ hslResult = None
CliIdle == /\ sizeArg = 0 /\ bgArg = <<>> /\ cli = None /\ identicon = None

(***************************************************************************)
(* Bounds of the model.                                                    *)
(***************************************************************************)
MaxLen == 4          \* longest byte sequence given to base64::encode

\* byte values the inputs are drawn from (0x00, 0x3F, 'M', 'a', 'n', 0x80, 0xFF)
ByteSamples == {0, 63, 77, 97, 110, 128, 255}

RECURSIVE SeqsUpTo(_, _)
SeqsUpTo(S, n) ==
    IF n = 0 THEN {<<>>}
    ELSE LET shorter == SeqsUpTo(S, n - 1)
         IN  shorter \cup {Append(s, x) : s \in {t \in shorter : Len(t) = n - 1}, x \in S}

(***************************************************************************)
(* u8 arithmetic.                                                          *)
(***************************************************************************)
RECURSIVE Pow2(_)
Pow2(n) == IF n = 0 THEN 1 ELSE 2 * Pow2(n - 1)

RECURSIVE BitAndN(_, _, _)
BitAndN(a, b, n) ==
    IF n = 0 THEN 0
    ELSE (IF a % 2 = 1 /\ b % 2 = 1 THEN 1 ELSE 0)
         + 2 * BitAndN(a \div 2, b \div 2, n - 1)

RECURSIVE BitOrN(_, _, _)
BitOrN(a, b, n) ==
    IF n = 0 THEN 0
    ELSE (IF a % 2 = 1 \/ b % 2 = 1 THEN 1 ELSE 0)
         + 2 * BitOrN(a \div 2, b \div 2, n - 1)

BitAnd(a, b) == BitAndN(a, b, 8)
BitOr(a, b)  == BitOrN(a, b, 8)
Shl(a, n)    == (a * Pow2(n)) % 256
Shr(a, n)    == a \div Pow2(n)

(***************************************************************************)
(* base64.rs                                                               *)
(***************************************************************************)
NUM_CHARS == 64

SIXBIT2CHAR ==
    << "A", "B", "C", "D", "E", "F", "G", "H", "I", "J", "K", "L", "M",
       "N", "O", "P", "Q", "R", "S", "T", "U", "V", "W", "X", "Y", "Z",
       "a", "b", "c", "d", "e", "f", "g", "h", "i", "j", "k", "l", "m",
       "n", "o", "p", "q", "r", "s", "t", "u", "v", "w", "x", "y", "z",
       "0", "1", "2", "3", "4", "5", "6", "7", "8", "9", "+", "/" >>

PADDING == "="

\* SIXBIT2CHAR[usize::from(i)]: the array is indexed from 0, and an index
\* outside it panics (modelled by the value "panic")
Sixbit2Char(i) == IF i \in 0 .. NUM_CHARS - 1 THEN SIXBIT2CHAR[i + 1] ELSE "panic"

\* the 6-bit value and the carried remainder of each arm of the match
SixbitZero(b)    == Shr(BitAnd(b, 252), 2)
\* RemTwo with the two bits shifted by 2 instead of 4
RemTwoBug(b)     == Shl(BitAnd(b, 3), 2)
RemTwo(b)        == Shl(BitAnd(b, 3), 4)
SixbitTwo(r, b)  == BitOr(r, Shr(BitAnd(b, 240), 4))
\* RemFour without the shift
RemFourBug(b)    == BitAnd(b, 15)
RemFour(b)       == Shl(BitAnd(b, 15), 2)
SixbitFour(r, b) == BitOr(r, Shr(BitAnd(b, 192), 6))
SixbitLow(b)     == BitAnd(b, 63)

\* what the match after the loop pushes
\* FinishTail with a single padding character in state Two
FinishTailBug(r, nb) ==
    CASE nb = "Zero" -> <<>>
      [] nb = "Two"  -> <<Sixbit2Char(r), PADDING>>
      [] nb = "Four" -> <<Sixbit2Char(r), PADDING>>
FinishTail(r, nb) ==
    CASE nb = "Zero" -> <<>>
      [] nb = "Two"  -> <<Sixbit2Char(r), PADDING, PADDING>>
      [] nb = "Four" -> <<Sixbit2Char(r), PADDING>>

InitB64 ==
    /\ pc = "loop"
    /\ bytes \in SeqsUpTo(ByteSamples, MaxLen)
    /\ pos = 0
    /\ remainder = 0
    /\ num_bits = "Zero"
    /\ encoded = <<>>
    /\ NewIdle /\ paints = <<>> /\ ImgIdle /\ HslIdle /\ CliIdle

\* one iteration of `while let Some(b) = iter.next()`, arm RemainderBits::Zero
StepZero ==
    /\ pc = "loop" /\ pos < Len(bytes) /\ num_bits = "Zero"
    /\ LET b == bytes[pos + 1] IN
         /\ encoded' = Append(encoded, Sixbit2Char(SixbitZero(b)))
         /\ remainder' = RemTwo(b)
         /\ num_bits' = "Two"
    /\ pos' = pos + 1
    /\ UNCHANGED <<pc, bytes, newVars, paints, imgVars, hslVars, cliVars>>

\* arm RemainderBits::Two
StepTwo ==
    /\ pc = "loop" /\ pos < Len(bytes) /\ num_bits = "Two"
    /\ LET b == bytes[pos + 1] IN
         /\ encoded' = Append(encoded, Sixbit2Char(SixbitTwo(remainder, b)))
         /\ remainder' = RemFour(b)
         /\ num_bits' = "Four"
    /\ pos' = pos + 1
    /\ UNCHANGED <<pc, bytes, newVars, paints, imgVars, hslVars, cliVars>>

\* arm RemainderBits::Four
StepFour ==
    /\ pc = "loop" /\ pos < Len(bytes) /\ num_bits = "Four"
    /\ LET b == bytes[pos + 1] IN
         /\ encoded' = encoded \o <<Sixbit2Char(SixbitFour(remainder, b)),
                                    Sixbit2Char(SixbitLow(b))>>
         /\ remainder' = 0
         /\ num_bits' = "Zero"
    /\ pos' = pos + 1
    /\ UNCHANGED <<pc, bytes, newVars, paints, imgVars, hslVars, cliVars>>

\* iter.next() is None: the match on num_bits after the loop, and the return
Finish ==
    /\ pc = "loop" /\ pos = Len(bytes)
    /\ encoded' = encoded \o FinishTail(remainder, num_bits)
    /\ pc' = "done"
    /\ UNCHANGED <<bytes, pos, remainder, num_bits, newVars, paints, imgVars,
                   hslVars, cliVars>>

NextB64 == StepZero \/ StepTwo \/ StepFour \/ Finish

SpecB64 == InitB64 /\ [][NextB64]_vars

(***************************************************************************)
(* RFC 4648 reference encoder and decoder (standard alphabet, '=' padding), *)
(* written block-wise over 24-bit groups, independently of the state       *)
(* machine above.                                                          *)
(***************************************************************************)
CharIndex(c) == CHOOSE i \in 0 .. 63 : SIXBIT2CHAR[i + 1] = c
IsAlphabetChar(c) == \E i \in 0 .. 63 : SIXBIT2CHAR[i + 1] = c

RECURSIVE Rfc4648Encode(_)
Rfc4648Encode(bs) ==
    IF Len(bs) = 0 THEN <<>>
    ELSE IF Len(bs) = 1 THEN
        LET n == bs[1] * 16
        IN  <<SIXBIT2CHAR[(n \div 64) + 1], SIXBIT2CHAR[(n % 64) + 1], "=", "=">>
    ELSE IF Len(bs) = 2 THEN
        LET n == (bs[1] * 256 + bs[2]) * 4
        IN  <<SIXBIT2CHAR[(n \div 4096) + 1], SIXBIT2CHAR[((n \div 64) % 64) + 1],
              SIXBIT2CHAR[(n % 64) + 1], "=">>
    ELSE
        LET n == bs[1] * 65536 + bs[2] * 256 + bs[3]
        IN  <<SIXBIT2CHAR[(n \div 262144) + 1], SIXBIT2CHAR[((n \div 4096) % 64) + 1],
              SIXBIT2CHAR[((n \div 64) % 64) + 1], SIXBIT2CHAR[(n % 64) + 1]>>
            \o Rfc4648Encode(SubSeq(bs, 4, Len(bs)))

\* the decoder answers "invalid" for a text that is not canonical base64
RECURSIVE Rfc4648Decode(_)
Rfc4648Decode(cs) ==
    IF Len(cs) = 0 THEN <<>>
    ELSE IF Len(cs) < 4 \/ ~IsAlphabetChar(cs[1]) \/ ~IsAlphabetChar(cs[2]) THEN "invalid"
    ELSE
        LET i1 == CharIndex(cs[1])
            i2 == CharIndex(cs[2])
        IN  IF cs[3] = "=" THEN
                IF Len(cs) = 4 /\ cs[4] = "=" /\ i2 % 16 = 0
                THEN <<i1 * 4 + i2 \div 16>>
                ELSE "invalid"
            ELSE IF ~IsAlphabetChar(cs[3]) THEN "invalid"
            ELSE
                LET i3 == CharIndex(cs[3])
                IN  IF cs[4] = "=" THEN
                        IF Len(cs) = 4 /\ i3 % 4 = 0
                        THEN <<i1 * 4 + i2 \div 16, (i2 % 16) * 16 + i3 \div 4>>
                        ELSE "invalid"
                    ELSE IF ~IsAlphabetChar(cs[4]) THEN "invalid"
                    ELSE
                        LET i4   == CharIndex(cs[4])
                            rest == Rfc4648Decode(SubSeq(cs, 5, Len(cs)))
                        IN  IF rest = "invalid" THEN "invalid"
                            ELSE <<i1 * 4 + i2 \div 16, (i2 % 16) * 16 + i3 \div 4,
                                   (i3 % 4) * 64 + i4>> \o rest

\* number of '=' the text ends with
RECURSIVE TrailingPads(_)
TrailingPads(cs) ==
    IF Len(cs) > 0 /\ cs[Len(cs)] = "="
    THEN 1 + TrailingPads(SubSeq(cs, 1, Len(cs) - 1))
    ELSE 0

CeilDiv3(n) == (n + 2) \div 3

(***************************************************************************)
(* C1: for every byte sequence (the empty one included) the returned text  *)
(* is the RFC 4648 standard-alphabet, '='-padded encoding of the input, a  *)
(* conformant decoder gives the input back, and the three literal vectors  *)
(* of the tests come out as written.                                       *)
(***************************************************************************)
C1_RoundTrip ==
    pc = "done" =>
        /\ encoded = Rfc4648Encode(bytes)
        /\ Rfc4648Decode(encoded) = bytes
        /\ bytes = <<77>> => encoded = <<"T", "Q", "=", "=">>
        /\ bytes = <<77, 97>> => encoded = <<"T", "W", "E", "=">>
        /\ bytes = <<77, 97, 110>> => encoded = <<"T", "W", "F", "u">>

C1_Witness ==
    /\ pc = "done"
    /\ bytes = <<77, 97, 110, 255>>
    /\ encoded = <<"T", "W", "F", "u", "/", "w", "=", "=">>

(***************************************************************************)
(* C2: the returned text has ceil(len/3)*4 characters, ends with 0, 2 or 1 *)
(* '=' according to len mod 3 = 0, 1 or 2, and holds no '=' before them.   *)
(***************************************************************************)
C2_LengthAndPadding ==
    pc = "done" =>
        LET n    == Len(bytes)
            pads == CASE n % 3 = 0 -> 0 [] n % 3 = 1 -> 2 [] n % 3 = 2 -> 1
        IN  /\ Len(encoded) = CeilDiv3(n) * 4
            /\ TrailingPads(encoded) = pads
            /\ \A i \in 1 .. Len(encoded) - pads : encoded[i] # "="

C2_Witness ==
    /\ pc = "done"
    /\ Len(bytes) = 4
    /\ Len(encoded) = 8
    /\ TrailingPads(encoded) = 2

(***************************************************************************)
(* C10: after k bytes the state is Zero, Two or Four by k mod 3, exactly   *)
(* k + k div 3 symbols are out, the remainder is the unconsumed low bits   *)
(* of the last byte left-aligned in six bits, every alphabet index used    *)
(* (in the loop and at the end) is in 0..63, and the end-of-input step     *)
(* appends nothing, a symbol and "==", or a symbol and "=".                *)
(***************************************************************************)
LoopPrefixLen(k) == k + k \div 3

C10_EncoderState ==
    /\ num_bits = (CASE pos % 3 = 0 -> "Zero" [] pos % 3 = 1 -> "Two" [] pos % 3 = 2 -> "Four")
    /\ num_bits = "Zero" => remainder = 0
    /\ num_bits = "Two"  => remainder \in {0, 16, 32, 48} /\ remainder = (bytes[pos] % 4) * 16
    /\ num_bits = "Four" => /\ remainder % 4 = 0 /\ remainder \in 0 .. 63
                            /\ remainder = (bytes[pos] % 16) * 4
    /\ \A i \in 1 .. Len(encoded) : encoded[i] # "panic"
    /\ pc = "loop" =>
        /\ Len(encoded) = LoopPrefixLen(pos)
        /\ pos < Len(bytes) =>
             LET b == bytes[pos + 1] IN
               /\ num_bits = "Zero" => SixbitZero(b) \in 0 .. 63
               /\ num_bits = "Two"  => SixbitTwo(remainder, b) \in 0 .. 63
               /\ num_bits = "Four" => /\ SixbitFour(remainder, b) \in 0 .. 63
                                       /\ SixbitLow(b) \in 0 .. 63
    /\ pc = "done" =>
        LET k == LoopPrefixLen(pos) IN
          /\ pos = Len(bytes)
          /\ num_bits = "Zero" => Len(encoded) = k
          /\ num_bits = "Two"  =>
               SubSeq(encoded, k + 1, Len(encoded)) = <<SIXBIT2CHAR[remainder + 1], "=", "=">>
          /\ num_bits = "Four" =>
               SubSeq(encoded, k + 1, Len(encoded)) = <<SIXBIT2CHAR[remainder + 1], "=">>

C10_Witness ==
    /\ pc = "done"
    /\ pos = 2
    /\ num_bits = "Four"
    /\ remainder = 60
    /\ encoded = <<"/", "/", "8", "=">>

(***************************************************************************)
(* f32 values.  A finite value x is held exactly as the integer x * Scale  *)
(* (Scale is a multiple of 10, 255 and 4095, so every quotient the program *)
(* forms from a digest, and every tenth, is an integer number of units);   *)
(* NaN and the infinities are values of their own.  The rounding of f32    *)
(* arithmetic is not modelled: the bounds compared against (0, 100, 360)   *)
(* are exact in f32 and rounding is monotone, so it moves no value across  *)
(* them.                                                                   *)
(***************************************************************************)
Scale == 4095 * 255 * 2

Num(n) == [k |-> "num", v |-> n]
NaN    == [k |-> "nan", v |-> 0]
PosInf == [k |-> "inf", v |-> 1]
NegInf == [k |-> "inf", v |-> -1]

\* f32::from of a u8 or u16
F32From(n) == Num(n * Scale)

Huge == 2 * 1000 * 1000 * 1000
Ord(a) == IF a.k = "inf" THEN a.v * Huge ELSE a.v

\* the IEEE 754 comparisons `a < b` and `a > b`: false when either is NaN
FLt(a, b) == a.k # "nan" /\ b.k # "nan" /\ Ord(a) < Ord(b)
FGt(a, b) == a.k # "nan" /\ b.k # "nan" /\ Ord(a) > Ord(b)

(***************************************************************************)
(* color.rs                                                                *)
(***************************************************************************)
color_HUE_MAX == 360
color_SAT_MAX == 100
color_LUM_MAX == 100

HSLOutOfBounds(name, val, max) == [ok |-> FALSE, name |-> name, val |-> val, max |-> max]

HSL_new(hue, sat, lum) ==
    IF FLt(hue, Num(0)) \/ FGt(hue, F32From(color_HUE_MAX))
    THEN HSLOutOfBounds("hue", hue, F32From(color_HUE_MAX))
    ELSE IF FLt(sat, Num(0)) \/ FGt(sat, F32From(color_SAT_MAX))
    THEN HSLOutOfBounds("sat", sat, F32From(color_SAT_MAX))
    ELSE IF FLt(lum, Num(0)) \/ FGt(lum, F32From(color_LUM_MAX))
    THEN HSLOutOfBounds("lum", lum, F32From(color_LUM_MAX))
    ELSE [ok |-> TRUE, hue |-> hue, sat |-> sat, lum |-> lum]

\* the f32 values HSL::new is called with: NaN, the infinities, and finite
\* values below, on, between and above the bounds
Tenth == Scale \div 10
F32Samples ==
    {NaN, PosInf, NegInf}
    \cup {Num(t * Tenth) : t \in {-1, 0, 1, 500, 999, 1000, 1001, 3599, 3600, 3601}}

InitHSL ==
    /\ pc = "call"
    /\ hslArgs \in F32Samples \X F32Samples \X F32Samples
    /\ hslResult = None
    /\ B64Idle /\ NewIdle /\ paints = <<>> /\ ImgIdle /\ CliIdle

HslNew ==
    /\ pc = "call"
    /\ hslResult' = HSL_new(hslArgs[1], hslArgs[2], hslArgs[3])
    /\ pc' = "done"
    /\ UNCHANGED <<b64Vars, newVars, paints, imgVars, hslArgs, cliVars>>

NextHSL == HslNew

SpecHSL == InitHSL /\ [][NextHSL]_vars

\* x lies in [0, max]: NaN and the infinities lie in no interval
InRange(x, max) == x.k = "num" /\ 0 <= x.v /\ x.v <= max * Scale

(***************************************************************************)
(* C5: HSL::new errs exactly when hue is outside [0,360] or sat or lum is  *)
(* outside [0,100]; the error names the first violating field in the order *)
(* hue, sat, lum, with its value and maximum; an accepted value is stored  *)
(* unchanged, the boundary values included.                                *)
(***************************************************************************)
C5_HslNewRange ==
    pc = "done" =>
        LET hue == hslArgs[1]
            sat == hslArgs[2]
            lum == hslArgs[3]
            hOk == InRange(hue, 360)
            sOk == InRange(sat, 100)
            lOk == InRange(lum, 100)
        IN  /\ hslResult.ok <=> (hOk /\ sOk /\ lOk)
            /\ hslResult.ok =>
                 /\ hslResult.hue = hue /\ hslResult.sat = sat /\ hslResult.lum = lum
            /\ ~hslResult.ok =>
                 /\ hslResult.name = (IF ~hOk THEN "hue" ELSE IF ~sOk THEN "sat" ELSE "lum")
                 /\ hslResult.val = (IF ~hOk THEN hue ELSE IF ~sOk THEN sat ELSE lum)
                 /\ hslResult.max = (IF ~hOk THEN Num(360 * Scale) ELSE Num(100 * Scale))

(***************************************************************************)
(* lib.rs: Identicon::new, compute_fg, map, paint                          *)
(***************************************************************************)
SAT_MIN == 45
SAT_MAX == 65
LUM_MIN == 55
LUM_MAX == 75
NUM_SQUARES == 7
NumPaints == 15      \* the length of Paints = [bool; 15]

\* hash[i] for the 0-based index of the source
HashByte(h, i) == h[i + 1]

\* (u16::from(hash[12]) & 0x0f) << 8
\* H1 with the mask 0x1f in place of 0x0f
H1Bug(h) == (BitAndN(HashByte(h, 12), 31, 16) * 256) % 65536
H1(h) == (BitAndN(HashByte(h, 12), 15, 16) * 256) % 65536
H2(h) == HashByte(h, 13)
HueBits(h) == BitOrN(H1(h), H2(h), 16)

\* dmin + ((val - vmin) * (dmax - dmin)) / (vmax - vmin), on integer
\* arguments; the quotient is exact in units of 1/Scale because vmax - vmin
\* (4095 or 255) divides Scale
Map(val, vmin, vmax, dmin, dmax) ==
    Num(dmin * Scale + ((val - vmin) * (dmax - dmin)) * (Scale \div (vmax - vmin)))

\* compute_fg up to the HSL value; the conversion as_rgb of an accepted
\* value is not modelled, the result keeps the HSL fields
compute_fg(h) ==
    LET hue == Map(HueBits(h), 0, 4095, 0, color_HUE_MAX)
        sat == Map(HashByte(h, 14), 0, 255, SAT_MAX, SAT_MIN)
        lum == Map(HashByte(h, 15), 0, 255, LUM_MAX, LUM_MIN)
    IN  HSL_new(hue, sat, lum)

\* hash.iter().flat_map(|b| [(b & 0xf0) >> 4, (b & 0x0f)]).take(len)
RECURSIVE FlatNibbles(_)
FlatNibbles(h) ==
    IF Len(h) = 0 THEN <<>>
    ELSE <<Shr(BitAnd(h[1], 240), 4), BitAnd(h[1], 15)>> \o FlatNibbles(Tail(h))
Nibbles(h, len) == SubSeq(FlatNibbles(h), 1, len)

\* the index written for the i-th nibble (i from 0)
\* PaintIdx without the column reversal
PaintIdxBug(i) ==
    LET num_cols == NUM_SQUARES \div 2
        num_rows == NUM_SQUARES - 2
    IN  (i % num_rows) * num_cols + i \div num_rows
PaintIdx(i) ==
    LET num_cols == NUM_SQUARES \div 2
        num_rows == NUM_SQUARES - 2
        col      == 2 - i \div num_rows
        row      == i % num_rows
    IN  row * num_cols + col

\* the for loop of paint, from the i-th nibble on
RECURSIVE PaintLoop(_, _, _)
PaintLoop(nibbles, p, i) ==
    IF i >= Len(nibbles) THEN p
    ELSE PaintLoop(nibbles, [p EXCEPT ![PaintIdx(i)] = (nibbles[i + 1] % 2 = 0)], i + 1)

paint(h, p) == PaintLoop(Nibbles(h, NumPaints), p, 0)

AllFalse == [i \in 0 .. NumPaints - 1 |-> FALSE]

\* digests: bytes 0..7 (the 15 nibbles the mask reads) drawn from bytes with
\* an even/even, even/odd or odd/even nibble pair, or from bytes with an
\* odd/odd or even/even pair; and the extremes and middle values of the four
\* bytes the colour reads
NibbleBytes == {36, 43, 158}
OddBytes == {215, 36}
ZeroTail == <<0, 0, 0, 0, 0, 0, 0, 0>>
DigestSamples ==
    {<<h[1], h[2], h[3], h[4], h[5], h[6], h[7], h[8]>> \o ZeroTail :
        h \in [1 .. 8 -> NibbleBytes] \cup [1 .. 8 -> OddBytes]}
    \cup
    {<<91, 43, 158, 215, 36, 36, 36, 36, 1, 2, 3, 4, t[1], t[2], t[3], t[4]>> :
        t \in {0, 15, 240, 255} \X {0, 1, 128, 255}
              \X {0, 1, 127, 128, 254, 255} \X {0, 1, 127, 128, 254, 255}}

InitNew ==
    /\ pc = "new"
    /\ hash \in DigestSamples
    /\ fgResult = None
    /\ paints = <<>>
    /\ B64Idle /\ ImgIdle /\ HslIdle /\ CliIdle

\* let foreground = Self::compute_fg(&hash)?;  let mut paints = [false; 15];
ComputeFg ==
    /\ pc = "new"
    /\ fgResult' = compute_fg(hash)
    /\ pc' = IF fgResult'.ok THEN "paint" ELSE "err"
    /\ paints' = IF fgResult'.ok THEN AllFalse ELSE paints
    /\ UNCHANGED <<b64Vars, hash, imgVars, hslVars, cliVars>>

\* Self::paint(&hash, &mut paints);  Ok(Self { .. })
Paint ==
    /\ pc = "paint"
    /\ paints' = paint(hash, paints)
    /\ pc' = "done"
    /\ UNCHANGED <<b64Vars, newVars, imgVars, hslVars, cliVars>>

NextNew == ComputeFg \/ Paint

SpecNew == InitNew /\ [][NextNew]_vars

(***************************************************************************)
(* C6: hue = hueRaw*360/4095 with hueRaw = ((byte12 & 0x0F) << 8) | byte13, *)
(* sat = 65 - byte14*20/255, lum = 75 - byte15*20/255; hue is in [0,360],  *)
(* sat in [45,65], lum in [55,75]; HSL::new accepts them and               *)
(* Identicon::new never returns the out-of-range error.                    *)
(***************************************************************************)
C6_ForegroundInRange ==
    /\ pc # "err"
    /\ pc \in {"paint", "done"} =>
        LET hueRaw == (hash[13] % 16) * 256 + hash[14] IN
          /\ fgResult.ok
          /\ fgResult.hue = Num(hueRaw * 360 * (Scale \div 4095))
          /\ fgResult.sat = Num(65 * Scale - hash[15] * 20 * (Scale \div 255))
          /\ fgResult.lum = Num(75 * Scale - hash[16] * 20 * (Scale \div 255))
          /\ InRange(fgResult.hue, 360)
          /\ 45 * Scale <= fgResult.sat.v /\ fgResult.sat.v <= 65 * Scale
          /\ 55 * Scale <= fgResult.lum.v /\ fgResult.lum.v <= 75 * Scale

C6_Witness ==
    /\ pc = "done"
    /\ hash[13] = 255 /\ hash[14] = 255 /\ hash[15] = 255 /\ hash[16] = 0
    /\ fgResult.ok
    /\ fgResult.hue = Num(360 * Scale)
    /\ fgResult.sat = Num(45 * Scale)
    /\ fgResult.lum = Num(75 * Scale)

(***************************************************************************)
(* C9: for each nibble index i in 0..14 (high nibble first, bytes 0..7)    *)
(* mask[(i mod 5)*3 + (2 - i div 5)] is true exactly when nibble i is      *)
(* even; i -> cell index is a bijection on 0..14, so every cell is written *)
(* (the result does not depend on the mask's initial content); nibbles     *)
(* 0..4 fill column 2, 5..9 column 1, 10..14 column 0.                     *)
(***************************************************************************)
NibbleAt(h, i) == IF i % 2 = 0 THEN h[i \div 2 + 1] \div 16 ELSE h[i \div 2 + 1] % 16

C9_PaintMask ==
    pc = "done" =>
        /\ DOMAIN paints = 0 .. 14
        /\ \A i \in 0 .. 14 :
             /\ paints[(i % 5) * 3 + (2 - i \div 5)] = (NibbleAt(hash, i) % 2 = 0)
             /\ PaintIdx(i) \div 3 = i % 5
             /\ i \in 0 .. 4   => PaintIdx(i) % 3 = 2
             /\ i \in 5 .. 9   => PaintIdx(i) % 3 = 1
             /\ i \in 10 .. 14 => PaintIdx(i) % 3 = 0
        /\ {PaintIdx(i) : i \in 0 .. 14} = 0 .. 14
        /\ paint(hash, [i \in 0 .. 14 |-> TRUE]) = paints

C9_Witness ==
    /\ pc = "done"
    /\ SubSeq(hash, 1, 3) = <<36, 43, 158>>
    /\ paints[2] /\ paints[5] /\ paints[8] /\ ~paints[11] /\ ~paints[14] /\ paints[1]

(***************************************************************************)
(* lib.rs: Identicon::image                                                *)
(***************************************************************************)
MaxSize == 2         \* largest cell size given to Identicon::image

\* RGB colours the foreground and the background are drawn from
Colours == {<<240, 240, 240>>, <<32, 60, 75>>}

\* paint masks: all false, one or two cells painted, all painted
MaskSamples ==
    {[i \in 0 .. NumPaints - 1 |-> i \in S] :
        S \in {T \in SUBSET (0 .. NumPaints - 1) : Cardinality(T) <= 2}
              \cup {0 .. NumPaints - 1}}

\* self.size * u32::from(NUM_SQUARES); the model's sizes stay far below
\* the u32 range (the command line keeps size * 7 below 2^32)
Side(sz) == sz * NUM_SQUARES

\* 1 + i as u8 / num_center_cols and 1 + i as u8 % num_center_cols
BlockRow(i) == 1 + i \div (NUM_SQUARES \div 2)
\* BlockCol without the border offset
BlockColBug(i) == i % (NUM_SQUARES \div 2)
BlockCol(i) == 1 + (i % (NUM_SQUARES \div 2))

\* the x coordinates put_pixel is called with for a column x of the block
\* PutXs without the mirrored pixel
PutXsBug(side, x) == {x}
PutXs(side, x) == {x, side - 1 - x}

\* RgbImage::from_pixel(size, size, background)
FromPixel(side, colour) == [q \in (0 .. side - 1) \X (0 .. side - 1) |-> colour]

\* the two inner loops for mask index i: every put_pixel of the block
PaintBlock(im, i, sz, fg) ==
    LET side == Side(sz)
        xs   == BlockCol(i) * sz .. BlockCol(i) * sz + sz - 1
        ys   == BlockRow(i) * sz .. BlockRow(i) * sz + sz - 1
        put  == {<<px, y>> : px \in UNION {PutXs(side, x) : x \in xs}, y \in ys}
    IN  [q \in DOMAIN im |-> IF q \in put THEN fg ELSE im[q]]

\* the loop over self.paints.iter().enumerate(), from index i on
RECURSIVE ImageLoop(_, _, _, _, _)
ImageLoop(im, p, i, sz, fg) ==
    IF i >= NumPaints THEN im
    ELSE ImageLoop(IF p[i] THEN PaintBlock(im, i, sz, fg) ELSE im, p, i + 1, sz, fg)

image(p, sz, fg, bg) == ImageLoop(FromPixel(Side(sz), bg), p, 0, sz, fg)

InitImg ==
    /\ pc = "image"
    /\ paints \in MaskSamples
    /\ size \in 0 .. MaxSize
    /\ foreground \in Colours
    /\ background \in Colours
    /\ img = None
    /\ B64Idle /\ NewIdle /\ HslIdle /\ CliIdle

Image ==
    /\ pc = "image"
    /\ img' = image(paints, size, foreground, background)
    /\ pc' = "done"
    /\ UNCHANGED <<b64Vars, newVars, paints, size, foreground, background,
                   hslVars, cliVars>>

NextImg == Image

SpecImg == InitImg /\ [][NextImg]_vars

\* pixel (x, y) lies in the cell of mask index i or in its mirror image
InCellOrMirror(x, y, i, sz) ==
    LET blockRow == 1 + i \div 3
        blockCol == 1 + (i % 3)
        side     == sz * 7
        inCol(c) == blockCol * sz <= c /\ c < blockCol * sz + sz
    IN  /\ blockRow * sz <= y /\ y < blockRow * sz + sz
        /\ (inCol(x) \/ inCol(side - 1 - x))

Painted(x, y) == \E i \in 0 .. 14 : paints[i] /\ InCellOrMirror(x, y, i, size)

(***************************************************************************)
(* C3 as stated: the buffer has side size*7 and a pixel equals the         *)
(* foreground colour exactly when it lies in a painted cell or its mirror; *)
(* every other pixel equals the background colour.                         *)
(***************************************************************************)
C3_ForegroundIffPainted ==
    (pc = "done" /\ size >= 1) =>
        /\ DOMAIN img = (0 .. size * 7 - 1) \X (0 .. size * 7 - 1)
        /\ \A q \in DOMAIN img :
             /\ img[q] = foreground <=> Painted(q[1], q[2])
             /\ ~Painted(q[1], q[2]) => img[q] = background

(***************************************************************************)
(* C3 amended: the buffer has side size*7, every pixel in a painted cell   *)
(* or its mirror equals the foreground colour and every other pixel equals *)
(* the background colour.                                                  *)
(***************************************************************************)
C3_PaintedPixels ==
    (pc = "done" /\ size >= 1) =>
        /\ DOMAIN img = (0 .. size * 7 - 1) \X (0 .. size * 7 - 1)
        /\ \A q \in DOMAIN img :
             img[q] = (IF Painted(q[1], q[2]) THEN foreground ELSE background)

C3_Witness ==
    /\ pc = "done"
    /\ size = 2
    /\ foreground # background
    /\ paints[4] /\ ~paints[5]
    /\ img[<<4, 4>>] = foreground /\ img[<<9, 5>>] = foreground
    /\ img[<<6, 4>>] = background

(***************************************************************************)
(* C4: seen as a 7x7 grid of size-by-size cells the image keeps cell rows  *)
(* 0 and 6 and cell columns 0 and 6 background, and pixel (x, y) has the   *)
(* colour of pixel (side-1-x, y).                                          *)
(***************************************************************************)
C4_BorderAndSymmetry ==
    (pc = "done" /\ size >= 1) =>
        LET side == size * 7 IN
          \A x \in 0 .. side - 1, y \in 0 .. side - 1 :
            /\ (x \div size \in {0, 6} \/ y \div size \in {0, 6})
                 => img[<<x, y>>] = background
            /\ img[<<x, y>>] = img[<<side - 1 - x, y>>]

C4_Witness ==
    /\ pc = "done"
    /\ size = 2
    /\ foreground # background
    /\ \A i \in 0 .. 14 : paints[i]
    /\ img[<<2, 2>>] = foreground /\ img[<<11, 11>>] = foreground
    /\ img[<<1, 2>>] = background /\ img[<<12, 11>>] = background

(***************************************************************************)
(* bin/cli.rs                                                              *)
(***************************************************************************)
MaxStrLen == 7       \* longest --background text
DEFAULT_SIZE == 60
SizeLimit == 613566757   \* the end of .range(..613566757)

\* the characters a --background text is made of
BgChars == {"2", "5", ",", "a"}
Digits == <<"0", "1", "2", "3", "4", "5", "6", "7", "8", "9">>

\* the text of the default, DEFAULT_BACKGROUND displayed as "240,240,240"
DefaultBackgroundText == <<"2", "4", "0", ",", "2", "4", "0", ",", "2", "4", "0">>

\* the integers --size is given (the default 60 among them); the model's
\* integers end at 2^31 - 1, every larger u32 is rejected like that one
SizeArgs == {-1, 0, 1, DEFAULT_SIZE, SizeLimit - 1, SizeLimit, 2147483647}

\* clap::value_parser!(u32).range(..613566757): the range has no lower
\* end, and the value must convert to u32
SizeParser(n) ==
    IF n < SizeLimit /\ n >= 0
    THEN [ok |-> TRUE, val |-> n]
    ELSE [ok |-> FALSE, val |-> n]

\* s.split(","): the fields between the delimiters, at least one
RECURSIVE SplitFrom(_, _, _)
SplitFrom(s, i, cur) ==
    IF i > Len(s) THEN <<cur>>
    ELSE IF s[i] = "," THEN <<cur>> \o SplitFrom(s, i + 1, <<>>)
    ELSE SplitFrom(s, i + 1, Append(cur, s[i]))
Split(s) == SplitFrom(s, 1, <<>>)

DigitValue(c) == (CHOOSE d \in 1 .. 10 : Digits[d] = c) - 1
IsDigit(c) == \E d \in 1 .. 10 : Digits[d] = c

\* the digits read left to right; -1 once a character is no digit or the
\* value passes 255 (u8 overflow)
RECURSIVE DigitsU8(_, _, _)
DigitsU8(f, i, acc) ==
    IF i > Len(f) THEN acc
    ELSE IF ~IsDigit(f[i]) THEN -1
    ELSE IF acc * 10 + DigitValue(f[i]) > 255 THEN -1
    ELSE DigitsU8(f, i + 1, acc * 10 + DigitValue(f[i]))

\* str::parse::<u8>().ok(): None (-1) for the empty text, a lone sign, a
\* non-digit or a value above 255; one leading '+' is accepted
ParseU8(f) ==
    IF Len(f) = 0 THEN -1
    ELSE IF f[1] = "+" THEN (IF Len(f) = 1 THEN -1 ELSE DigitsU8(f, 2, 0))
    ELSE DigitsU8(f, 1, 0)

\* iter.next().and_then(|s| s.parse::<u8>().ok()) for the n-th call of next
NextField(fields, n) == IF n > Len(fields) THEN -1 ELSE ParseU8(fields[n])

InvalidColor(s) == [ok |-> FALSE, val |-> s]

parse_color(s) ==
    LET fields == Split(s)
        r == NextField(fields, 1)
        g == NextField(fields, 2)
        b == NextField(fields, 3)
    IN  IF r = -1 THEN InvalidColor(s)
        ELSE IF g = -1 THEN InvalidColor(s)
        ELSE IF b = -1 THEN InvalidColor(s)
        ELSE [ok |-> TRUE, rgb |-> <<r, g, b>>]

\* the digest of the name (MD5 is outside the model)
CliDigests ==
    {<<91, 43, 158, 215, 36, 36, 36, 36, 1, 2, 3, 4, 250, 17, 128, 3>>,
     <<36, 215, 36, 43, 158, 91, 43, 36, 9, 8, 7, 6, 5, 255, 0, 255>>}

\* the result of size * 7 in u32: the product as 16-bit halves, and whether
\* it passed 2^32 - 1
Mul7U32(n) ==
    LET lo7 == 7 * (n % 65536)
        hi7 == 7 * (n \div 65536) + lo7 \div 65536
    IN  [overflow |-> hi7 >= 65536, hi |-> hi7 % 65536, lo |-> lo7 % 65536]

InitCli ==
    /\ pc = "start"
    /\ sizeArg \in SizeArgs
    /\ bgArg \in SeqsUpTo(BgChars, MaxStrLen) \cup {DefaultBackgroundText}
    /\ cli = None
    /\ identicon = None
    /\ B64Idle /\ NewIdle /\ paints = <<>> /\ ImgIdle /\ HslIdle

\* Cli::parse(): both value parsers run; an error of either ends the process
\* (which one is reported depends on the order of the arguments)
Parse ==
    /\ pc = "start"
    /\ LET sz == SizeParser(sizeArg)
           bg == parse_color(bgArg)
       IN  IF sz.ok /\ bg.ok
           THEN /\ cli' = [ok |-> TRUE, size |-> sz.val, background |-> bg.rgb]
                /\ pc' = "parsed"
           ELSE /\ cli' \in {[ok |-> FALSE, arg |-> a] :
                               a \in {x \in {"size"} : ~sz.ok}
                                     \cup {x \in {"background"} : ~bg.ok}}
                /\ pc' = "exit"
    /\ UNCHANGED <<b64Vars, newVars, paints, imgVars, hslVars, sizeArg, bgArg, identicon>>

\* identicon::Identicon::new(&cli.name, cli.size, cli.background)?
New ==
    /\ pc = "parsed"
    /\ \E h \in CliDigests :
         LET fg == compute_fg(h) IN
           IF fg.ok
           THEN /\ identicon' = [paints |-> paint(h, AllFalse), size |-> cli.size,
                                 foreground |-> fg, background |-> cli.background]
                /\ pc' = "built"
           ELSE /\ identicon' = identicon
                /\ pc' = "exit"
    /\ UNCHANGED <<b64Vars, newVars, paints, imgVars, hslVars, sizeArg, bgArg, cli>>

\* every command calls self.image(); its first statement computes
\* self.size * 7 (the pixels and the codec are outside this specification)
ImageSize ==
    /\ pc = "built"
    /\ img' = Mul7U32(identicon.size)
    /\ pc' = "image"
    /\ UNCHANGED <<b64Vars, newVars, paints, size, foreground, background, hslVars,
                   cliVars>>

NextCli == Parse \/ New \/ ImageSize

SpecCli == InitCli /\ [][NextCli]_vars

\* the text is exactly three comma-separated fields, each an integer 0..255
CommaCount(s) == Cardinality({i \in 1 .. Len(s) : s[i] = ","})
IsThreeBytes(s) ==
    /\ CommaCount(s) = 2
    /\ LET c1 == CHOOSE i \in 1 .. Len(s) : s[i] = ","
           c2 == CHOOSE i \in 1 .. Len(s) : s[i] = "," /\ i # c1 /\ i > c1
       IN  /\ ParseU8(SubSeq(s, 1, c1 - 1)) \in 0 .. 255
           /\ ParseU8(SubSeq(s, c1 + 1, c2 - 1)) \in 0 .. 255
           /\ ParseU8(SubSeq(s, c2 + 1, Len(s))) \in 0 .. 255

(***************************************************************************)
(* C7: a cell size that reaches Identicon::image() through the command     *)
(* line is positive and size*7 does not overflow u32: --size accepts       *)
(* exactly 1..613566756, and rejects 0 and every value from 613566757 on.  *)
(***************************************************************************)
C7_SizeRange ==
    /\ (pc # "start" /\ parse_color(bgArg).ok) =>
          (cli.ok <=> sizeArg \in 1 .. 613566756)
    /\ pc = "image" => (identicon.size >= 1 /\ ~img.overflow)

(***************************************************************************)
(* C8: parse_color returns InvalidColor for every text that is not exactly *)
(* three comma-separated fields each an integer in 0..255 (too few, too    *)
(* many, or a non-byte field) and RGB(r,g,b) otherwise; the error comes    *)
(* before any Identicon is built.                                          *)
(***************************************************************************)
C8_ParseColor ==
    /\ (pc # "start" /\ SizeParser(sizeArg).ok) => (cli.ok <=> IsThreeBytes(bgArg))
    /\ (pc # "start" /\ cli.ok) =>
          LET f == Split(bgArg)
          IN  cli.background = <<ParseU8(f[1]), ParseU8(f[2]), ParseU8(f[3])>>
    /\ pc = "exit" => identicon = None

====
